---- MODULE Spec2Model ----
(***************************************************************************)
(* Model of cal.py (ralismark/sentral-icals): scraping the Sentral         *)
(* calendar pages of a year's terms and writing them as one iCalendar      *)
(* feed.  Text is a sequence of one-character strings, so that splitting,  *)
(* parsing, case folding and concatenation are computed, not assumed.      *)
(***************************************************************************)
EXTENDS Integers, Sequences, FiniteSets, TLC

VARIABLES
    pc,         \* position of main: "start", "fetching", "fetched", "done", "error"
    cals,       \* args.cals: the list of category names
    terms,      \* args.terms: the list of term numbers
    year,       \* the integer of args.year
    yearIsList, \* TRUE when --year was given: nargs=1 makes args.year a list
    hashOrder,  \* iteration order of a set of ids (decided by the hash table)
    termIdx,    \* index in terms of the get_events call in progress
    ids,        \* the id set of the get_events call, in iteration order
    idIdx,      \* number of ids of that set already processed
    fetches,    \* every requests.get issued so far: <<calid, term>>
    events,     \* raw events collected so far (main, line 202)
    origin,     \* per raw event, where it came from (history, not in the code)
    stdout,     \* what was written to standard output
    error,      \* the exception that ended the run, or "none"
    site,       \* the pages the server may answer a fetch with
    arg,        \* function-level runs: the arguments
    ret         \* function-level runs: the returned value

vars == <<pc, cals, terms, year, yearIsList, hashOrder, termIdx, ids, idIdx,
          fetches, events, origin, stdout, error, site, arg, ret>>

-----------------------------------------------------------------------------
(* Text helpers *)

DigitChars == <<"0", "1", "2", "3", "4", "5", "6", "7", "8", "9">>

Digits == {DigitChars[i] : i \in 1..10}

DigitVal(c) == (CHOOSE i \in 1..10 : DigitChars[i] = c) - 1

UpperChars == <<"A","B","C","D","E","F","G","H","I","J","K","L","M",
                "N","O","P","Q","R","S","T","U","V","W","X","Y","Z">>

LowerChars == <<"a","b","c","d","e","f","g","h","i","j","k","l","m",
                "n","o","p","q","r","s","t","u","v","w","x","y","z">>

\* str.casefold() of one character (ASCII)
CasefoldChar(c) ==
    IF \E i \in 1..26 : UpperChars[i] = c
    THEN LowerChars[CHOOSE i \in 1..26 : UpperChars[i] = c]
    ELSE c

\* str.casefold()
Casefold(s) == [i \in 1..Len(s) |-> CasefoldChar(s[i])]

\* str(n) of a non-negative int
RECURSIVE IntToStr(_)
IntToStr(n) ==
    IF n < 10 THEN <<DigitChars[n + 1]>>
    ELSE IntToStr(n \div 10) \o <<DigitChars[(n % 10) + 1]>>

Max(a, b) == IF a >= b THEN a ELSE b

Min(a, b) == IF a <= b THEN a ELSE b

\* s[a..b] as a sequence, clipped to the text (empty when b < a)
Slice(s, a, b) ==
    LET lo == Max(a, 1)
        hi == Min(b, Len(s))
    IN  [i \in 1..(hi - lo + 1) |-> s[lo + i - 1]]

Sep == <<" ", "-", " ">>

\* str.split(' - '): cut at the leftmost occurrences of the separator
RECURSIVE Split(_)
Split(s) ==
    LET hits == {i \in 1..(Len(s) - 2) : Slice(s, i, i + 2) = Sep}
    IN  IF hits = {} THEN <<s>>
        ELSE LET i == CHOOSE h \in hits : \A g \in hits : h <= g
             IN  <<Slice(s, 1, i - 1)>> \o Split(Slice(s, i + 3, Len(s)))

-----------------------------------------------------------------------------
(* Module constants of cal.py *)

SEQ_NUM == 1

TZID == "Australia/Sydney"

None == 0

CalKeys == <<67, 69, 66, 63, 64, 65, 60, 61, 62>>

CALS ==
    (67 :> <<"M","u","s","i","c">>) @@
    (69 :> <<"P","a","r","e","n","t">>) @@
    (66 :> <<"W","h","o","l","e"," ","S","c","h","o","o","l">>) @@
    (63 :> <<"Y","r"," ","1","0">>) @@
    (64 :> <<"Y","r"," ","1","1">>) @@
    (65 :> <<"Y","r"," ","1","2">>) @@
    (60 :> <<"Y","r"," ","7">>) @@
    (61 :> <<"Y","r"," ","8">>) @@
    (62 :> <<"Y","r"," ","9">>)

-----------------------------------------------------------------------------
(* cal_names_to_ids *)

\* value.casefold() of every registry name
CalsFolded == [k \in DOMAIN CALS |-> Casefold(CALS[k])]

\* cal2id comparing the names as written
cal2idExact(name) ==
    LET hits == {i \in 1..Len(CalKeys) : CALS[CalKeys[i]] = name}
    IN  IF hits = {} THEN None
        ELSE CalKeys[CHOOSE h \in hits : \A g \in hits : h <= g]

\* cal2id: the first registry entry whose name matches, else None
cal2id(name) ==
    LET folded == Casefold(name)
        hits == {i \in 1..Len(CalKeys) : CalsFolded[CalKeys[i]] = folded}
    IN  IF hits = {} THEN None
        ELSE CalKeys[CHOOSE h \in hits : \A g \in hits : h <= g]

\* set(map(cal2id, names))
cal_names_to_ids(names) == {cal2id(names[i]) : i \in 1..Len(names)}

-----------------------------------------------------------------------------
(* datetime.strptime for the three formats of cal.py *)

\* %I: 1[0-2]|0[1-9]|[1-9]
MatchI(s) ==
    IF Len(s) = 1 /\ s[1] \in Digits \ {"0"} THEN {DigitVal(s[1])}
    ELSE IF Len(s) = 2 /\ s[1] = "1" /\ s[2] \in {"0", "1", "2"}
         THEN {10 + DigitVal(s[2])}
    ELSE IF Len(s) = 2 /\ s[1] = "0" /\ s[2] \in Digits \ {"0"}
         THEN {DigitVal(s[2])}
    ELSE {}

\* %M: [0-5]\d|\d
MatchM(s) ==
    IF Len(s) = 1 /\ s[1] \in Digits THEN {DigitVal(s[1])}
    ELSE IF Len(s) = 2 /\ s[1] \in {"0","1","2","3","4","5"} /\ s[2] \in Digits
         THEN {10 * DigitVal(s[1]) + DigitVal(s[2])}
    ELSE {}

\* %p: am|pm, case-insensitive
MatchP(s) ==
    IF Casefold(s) = <<"a", "m">> THEN {"AM"}
    ELSE IF Casefold(s) = <<"p", "m">> THEN {"PM"}
    ELSE {}

\* the hour of day of a 12-hour clock reading
Hour24(h, ampm) == IF ampm = "AM" THEN h % 12 ELSE (h % 12) + 12

\* strptime(s, '%I:%M%p') as minutes since midnight; {} on ValueError
StrptimeIMp(s) ==
    {Hour24(h, p) * 60 + m :
        <<h, m, p>> \in UNION {MatchI(Slice(s, 1, i - 1))
                                 \X MatchM(Slice(s, i + 1, Len(s) - 2))
                                 \X MatchP(Slice(s, Len(s) - 1, Len(s))) :
                               i \in {k \in 1..Len(s) : s[k] = ":"}}}

\* strptime(s, '%I%p') as minutes since midnight; {} on ValueError
StrptimeIp(s) ==
    {Hour24(h, p) * 60 :
        <<h, p>> \in MatchI(Slice(s, 1, Len(s) - 2))
                       \X MatchP(Slice(s, Len(s) - 1, Len(s)))}

MonthNames == << <<"j","a","n">>, <<"f","e","b">>, <<"m","a","r">>, <<"a","p","r">>,
                 <<"m","a","y">>, <<"j","u","n">>, <<"j","u","l">>, <<"a","u","g">>,
                 <<"s","e","p">>, <<"o","c","t">>, <<"n","o","v">>, <<"d","e","c">> >>

\* %b: an abbreviated month name, case-insensitive
MatchB(s) == {i \in 1..12 : MonthNames[i] = Casefold(s)}

\* %d: 3[0-1]|[1-2]\d|0[1-9]|[1-9]
MatchD(s) ==
    IF Len(s) = 1 /\ s[1] \in Digits \ {"0"} THEN {DigitVal(s[1])}
    ELSE IF Len(s) = 2 /\ s[1] \in Digits /\ s[2] \in Digits
            /\ 10 * DigitVal(s[1]) + DigitVal(s[2]) \in 1..31
         THEN {10 * DigitVal(s[1]) + DigitVal(s[2])}
    ELSE {}

IsLeap(y) == (y % 4 = 0) /\ ((y % 100 # 0) \/ (y % 400 = 0))

DaysInMonth(y, m) ==
    IF m = 2 THEN (IF IsLeap(y) THEN 29 ELSE 28)
    ELSE IF m \in {4, 6, 9, 11} THEN 30 ELSE 31

\* the year strptime gives a date parsed without one
StrptimeYear == 1900

\* strptime(s, '%b %d') as <<month, day>>; {} on ValueError.  The month is
\* followed by one or more blanks; the date must exist in StrptimeYear.
StrptimeBd(s) ==
    {md \in UNION {MatchB(Slice(s, 1, 3)) \X MatchD(Slice(s, j, Len(s))) :
                   j \in {k \in 5..Len(s) : \A i \in 4..(k - 1) : s[i] = " "}} :
        md[2] <= DaysInMonth(StrptimeYear, md[1])}

MINYEAR == 1

MAXYEAR == 9999

-----------------------------------------------------------------------------
(* parse_duration *)

\* one bit: the first format that parses it; {} when neither does
ParseBit(bit) ==
    IF StrptimeIMp(bit) # {} THEN StrptimeIMp(bit) ELSE StrptimeIp(bit)

\* [ok, out]: out is the list of timestamps (minutes since midnight of
\* 1900-01-01), ok is FALSE when some bit raises ValueError
parse_duration(duration) ==
    LET bits == Split(duration)
    IN  IF \E i \in 1..Len(bits) : ParseBit(bits[i]) = {}
        THEN [ok |-> FALSE, out |-> <<>>]
        ELSE [ok |-> TRUE,
              out |-> [i \in 1..Len(bits) |-> CHOOSE t \in ParseBit(bits[i]) : TRUE]]

-----------------------------------------------------------------------------
(* as_ical_event *)

HasTime(event) == "time" \in DOMAIN event

\* the bytes fed to md5, lines 80-85
HashInput(yr, event) ==
    event.event \o event.day \o IntToStr(yr)
        \o (IF HasTime(event) THEN event.time ELSE <<>>)

\* md5 taken as collision-free: the digest stands for the bytes hashed
Md5(bytes) == [digest |-> bytes]

\* str(guid) + '@ralismark.github.io', lines 87 and 91
Uid(yr, event) == [guid |-> Md5(HashInput(yr, event)), host |-> "ralismark.github.io"]

\* datetime.strptime(event['day'], '%b %d').replace(year=year, tzinfo=LOCALTZ),
\* line 94; {} when strptime or replace raises ValueError
ResolveDate(yr, day) ==
    {[year |-> yr, month |-> md[1], day |-> md[2], hour |-> 0, minute |-> 0,
      tzinfo |-> "LOCALTZ"] :
        md \in {x \in StrptimeBd(day) :
                    /\ yr \in MINYEAR..MAXYEAR
                    /\ x[2] <= DaysInMonth(yr, x[1])}}

\* The event built by as_ical_event, or the exception it raises.
as_ical_event(yr, event) ==
    LET dates == ResolveDate(yr, event.day)
        date == CHOOSE d \in dates : TRUE
        base == [ok |-> TRUE, summary |-> event.event, uid |-> Uid(yr, event),
                 sequence |-> IntToStr(SEQ_NUM)]
    IN  IF dates = {} THEN [ok |-> FALSE, error |-> "ValueError"]
        ELSE IF HasTime(event)
        THEN LET parsed == parse_duration(event.time)
             IN  IF ~parsed.ok \/ Len(parsed.out) # 2
                 THEN [ok |-> FALSE, error |-> "ValueError"]
                 ELSE LET dtstart == parsed.out[1]
                          dtend == parsed.out[2]
                      IN  base @@
                          [dtstart |-> [date EXCEPT !.hour = dtstart \div 60,
                                                    !.minute = dtstart % 60,
                                                    !.tzinfo = TZID],
                           duration |-> dtend - dtstart]
        ELSE base @@ [dtstart |-> date, dtend |-> date]

-----------------------------------------------------------------------------
(* Time zones: what pytz.timezone(tzid) holds, and generate_vtimezone *)

\* Instants are hours since the start of EpochYear (UTC); offsets are hours.
EpochYear == 2024

HoursInYear(y) == 24 * (IF IsLeap(y) THEN 366 ELSE 365)

RECURSIVE YearStart(_)
YearStart(y) ==
    IF y = EpochYear THEN 0
    ELSE IF y > EpochYear THEN YearStart(y - 1) + HoursInYear(y - 1)
    ELSE YearStart(y + 1) - HoursInYear(y)

\* datetime.year of an instant
RECURSIVE YearFrom(_, _)
YearFrom(t, y) ==
    IF t < YearStart(y) THEN YearFrom(t, y - 1)
    ELSE IF t >= YearStart(y + 1) THEN YearFrom(t, y + 1)
    ELSE y

YearOf(t) == YearFrom(t, EpochYear)

\* A zone's (_utc_transition_times, _transition_info), zipped, for the years
\* first..last.  Each year holds one transition into daylight time and one
\* out of it; early is the one that comes first in the calendar year.
ZoneTable(first, last, stdOff, stdName, dstName, early, earlyAt, lateAt) ==
    LET std == [utcoffset |-> stdOff, dst |-> 0, tzname |-> stdName]
        dst == [utcoffset |-> stdOff + 1, dst |-> 1, tzname |-> dstName]
        n == 2 * (last - first + 1)
        yr(i) == first + ((i - 1) \div 2)
    IN  [i \in 1..n |->
            IF i % 2 = 1
            THEN [at |-> YearStart(yr(i)) + earlyAt,
                  info |-> IF early = "dst" THEN dst ELSE std]
            ELSE [at |-> YearStart(yr(i)) + lateAt,
                  info |-> IF early = "dst" THEN std ELSE dst]]

\* Australia/Sydney: out of daylight time in early April, into it in early
\* October (16:00 UTC of the Saturday)
SydneyZone == ZoneTable(2022, 2027, 10, "AEST", "AEDT", "std", 2320, 6688)

\* the time zone database, by zone id
ZoneDb == [z \in {TZID} |-> SydneyZone]

\* datetime.datetime.now().year
CurrentYear == 2024

\* One sub-component of the VTIMEZONE, lines 146-154 and 157-165
TzComponent(kind, first, second, other) ==
    LET offsetfrom == other.info.utcoffset
    IN  [name |-> kind,
         dtstart |-> first.at + offsetfrom,
         rdate |-> <<first.at + offsetfrom, second.at + offsetfrom>>,
         tzoffsetfrom |-> offsetfrom,
         tzoffsetto |-> first.info.utcoffset,
         tzname |-> first.info.tzname]

\* generate_vtimezone for a zone table and the current year
generate_vtimezone(tzid, zone, now) ==
    IF tzid = "" THEN [ok |-> TRUE, none |-> TRUE]
    ELSE LET sel == SelectSeq(zone, LAMBDA x : YearOf(x.at) \in {now, now + 1})
         IN  IF Len(sel) # 4 THEN [ok |-> FALSE, error |-> "ValueError"]
             ELSE LET dst1 == sel[1]
                      std1 == sel[2]
                      dst2 == sel[3]
                      std2 == sel[4]
                  IN  [ok |-> TRUE, none |-> FALSE, tzid |-> tzid,
                       components |->
                           <<TzComponent("DAYLIGHT", dst1, dst2, std1),
                             TzComponent("STANDARD", std1, std2, dst1)>>]

-----------------------------------------------------------------------------
(* make_cal *)

\* the time zone added after the events
CalComponentsTzLast(vtz, seq) ==
    [i \in 1..Len(seq) |-> [name |-> "VEVENT", body |-> seq[i]]]
        \o <<[name |-> "VTIMEZONE", body |-> vtz]>>

\* the components of the calendar, in the order added (lines 179-182)
CalComponents(vtz, seq) ==
    <<[name |-> "VTIMEZONE", body |-> vtz]>>
        \o [i \in 1..Len(seq) |-> [name |-> "VEVENT", body |-> seq[i]]]

make_cal(seq) ==
    LET vtz == generate_vtimezone(TZID, ZoneDb[TZID], CurrentYear)
    IN  IF ~vtz.ok \/ vtz.none THEN [ok |-> FALSE, error |-> "ValueError"]
        ELSE [ok |-> TRUE,
              version |-> "2.0",
              prodid |-> "-//Sentral Calendar Script//ralismark.github.io//",
              calname |-> "Sentral Calendar",
              components |-> CalComponents(vtz, seq)]

-----------------------------------------------------------------------------
(* process_event and the pages a fetch can return *)

\* process_event: the dict of one event node, from the node's strings
\* (a node without any string raises IndexError at line 53)
process_event(strings) ==
    IF Len(strings) > 1 THEN [time |-> strings[1], event |-> strings[2]]
    ELSE [event |-> strings[1]]

T_0900_1030 == <<"9",":","0","0","a","m"," ","-"," ","1","0",":","3","0","a","m">>

T_9am == <<"9","a","m">>

D_Mar03 == <<"M","a","r"," ","0","3">>

D_Feb07 == <<"F","e","b"," ","0","7">>

D_Mar04 == <<"M","a","r"," ","0","4">>

\* A page is the list of its day cells; a cell has the text of its date
\* label and, per event node, the list of the node's strings.
PageGood ==
    <<[name |-> D_Mar03, nodes |-> << <<T_0900_1030, <<"A">> >>, << <<"B">> >> >>],
      [name |-> D_Feb07, nodes |-> << << <<"C">> >> >>]>>

PageEmpty == <<>>

\* holds an event node without text
PageNoText ==
    <<[name |-> D_Mar04, nodes |-> << <<>> >>]>>

Pages == {PageGood, PageEmpty, PageNoText}

T_9xm_10am == <<"9","x","m"," ","-"," ","1","0","a","m">>

T_ThreeParts == <<"9","a","m"," ","-"," ","1","0","a","m"," ","-"," ","1","1","a","m">>

D_Foo1 == <<"F","o","o"," ","1">>

D_Feb29 == <<"F","e","b"," ","2","9">>

\* pages with one event that does not parse, after one that does
PageOnePart ==
    <<[name |-> D_Mar04, nodes |-> << << <<"B">> >>, <<T_9am, <<"A">> >> >>]>>

PageUnknownFragment ==
    <<[name |-> D_Mar04, nodes |-> << << <<"B">> >>, <<T_9xm_10am, <<"A">> >> >>]>>

PageThreeParts ==
    <<[name |-> D_Mar04, nodes |-> << << <<"B">> >>, <<T_ThreeParts, <<"A">> >> >>]>>

PageBadDay ==
    <<[name |-> D_Mar04, nodes |-> << << <<"B">> >> >>],
      [name |-> D_Foo1, nodes |-> << << <<"A">> >> >>]>>

PageLeapDay ==
    <<[name |-> D_Mar04, nodes |-> << << <<"B">> >> >>],
      [name |-> D_Feb29, nodes |-> << << <<"A">> >> >>]>>

BadPages == {PageOnePart, PageUnknownFragment, PageThreeParts, PageBadDay, PageLeapDay}

\* lines 120-129 for one page: the entries appended to events, in order, each
\* with the day cell and node it was read from (history, not in the code)
RECURSIVE CellEntries(_, _, _)
CellEntries(page, d, k) ==
    IF k > Len(page[d].nodes) THEN <<>>
    ELSE <<[entry |-> [day |-> page[d].name] @@ process_event(page[d].nodes[k]),
            day |-> d, node |-> k]>>
            \o CellEntries(page, d, k + 1)

RECURSIVE DayEntries(_, _)
DayEntries(page, d) ==
    IF d > Len(page) THEN <<>>
    ELSE CellEntries(page, d, 1) \o DayEntries(page, d + 1)

\* the day cells walked from the last to the first
RECURSIVE DayEntriesLastFirst(_, _)
DayEntriesLastFirst(page, d) ==
    IF d > Len(page) THEN <<>>
    ELSE DayEntriesLastFirst(page, d + 1) \o CellEntries(page, d, 1)

PageEntriesLastDayFirst(page) == DayEntriesLastFirst(page, 1)

PageEntries(page) == DayEntries(page, 1)

HasEmptyNode(page) ==
    \E d \in 1..Len(page) : \E k \in 1..Len(page[d].nodes) : page[d].nodes[k] = <<>>

-----------------------------------------------------------------------------
(* main *)

MaxCals == 2

MaxTerms == 2

N_Yr10 == <<"Y","r"," ","1","0">>

N_yr10 == <<"y","r"," ","1","0">>

N_Music == <<"M","u","s","i","c">>

N_Drama == <<"D","r","a","m","a">>

\* the names --cals is given
NamePool == {N_Yr10, N_yr10, N_Music, N_Drama}

\* the numbers --term is given
TermPool == {1, 2}

\* the year --year is given
YearPool == {2023}

SeqsUpTo(S, lo, hi) == UNION {[1..n -> S] : n \in lo..hi}

Orders(S) ==
    {f \in [1..Cardinality(S) -> S] : \A i, j \in 1..Cardinality(S) : f[i] = f[j] => i = j}

\* iterating a set: its members in the hash table's order
SetOrder(order, S) == SelectSeq(order, LAMBDA x : x \in S)

Idle ==
    /\ arg = <<>>
    /\ ret = <<>>

\* parse_args, lines 186-194, for a server answering with the pages of `served`
InitRun(served) ==
    /\ pc = "start"
    /\ cals \in SeqsUpTo(NamePool, 0, MaxCals)
    /\ hashOrder \in Orders(cal_names_to_ids(cals))
    /\ terms \in SeqsUpTo(TermPool, 1, MaxTerms)
    /\ yearIsList \in BOOLEAN
    /\ year \in (IF yearIsList THEN YearPool ELSE {CurrentYear})
    /\ termIdx = 0
    /\ ids = <<>>
    /\ idIdx = 0
    /\ fetches = <<>>
    /\ events = <<>>
    /\ origin = <<>>
    /\ stdout = <<>>
    /\ error = "none"
    /\ site = served
    /\ Idle

Init == InitRun(Pages)

\* lines 196-198: no category given
PrintRegistry ==
    /\ pc = "start"
    /\ cals = <<>>
    /\ stdout' = <<[kind |-> "text",
                    lines |-> [i \in 1..Len(CalKeys) |-> CALS[CalKeys[i]]]]>>
    /\ pc' = "done"
    /\ UNCHANGED <<cals, terms, year, yearIsList, hashOrder, termIdx, ids, idIdx,
                   fetches, events, origin, error, site, arg, ret>>

\* lines 200-202 and 112: the call of get_events for the term at index t
CallGetEvents(t) ==
    /\ termIdx' = t
    /\ ids' = SetOrder(hashOrder, cal_names_to_ids(cals))
    /\ idIdx' = 0
    /\ pc' = "get_events"

\* main without the test of line 196
StartRunUnchecked ==
    /\ pc = "start"
    /\ CallGetEvents(1)
    /\ UNCHANGED <<cals, terms, year, yearIsList, hashOrder, fetches, events,
                   origin, stdout, error, site, arg, ret>>

StartRun ==
    /\ pc = "start"
    /\ cals # <<>>
    /\ CallGetEvents(1)
    /\ UNCHANGED <<cals, terms, year, yearIsList, hashOrder, fetches, events,
                   origin, stdout, error, site, arg, ret>>

\* line 113 for an id that is no key of CALS
LookupFails ==
    /\ pc = "get_events"
    /\ idIdx < Len(ids)
    /\ ids[idIdx + 1] \notin DOMAIN CALS
    /\ pc' = "error"
    /\ error' = "KeyError"
    /\ UNCHANGED <<cals, terms, year, yearIsList, hashOrder, termIdx, ids, idIdx,
                   fetches, events, origin, stdout, site, arg, ret>>

\* get_events without the lookup CALS[calid] of line 113: every id is fetched
FetchCalendarUnguarded ==
    /\ pc = "get_events"
    /\ idIdx < Len(ids)
    /\ fetches' = Append(fetches, <<ids[idIdx + 1], terms[termIdx]>>)
    /\ idIdx' = idIdx + 1
    /\ UNCHANGED <<pc, cals, terms, year, yearIsList, hashOrder, termIdx, ids,
                   events, origin, stdout, error, site, arg, ret>>

\* lines 113-129 for one id: the fetch and the extraction of its page
FetchCalendar ==
    /\ pc = "get_events"
    /\ idIdx < Len(ids)
    /\ ids[idIdx + 1] \in DOMAIN CALS
    /\ fetches' = Append(fetches, <<ids[idIdx + 1], terms[termIdx]>>)
    /\ \E page \in site :
          IF HasEmptyNode(page)
          THEN /\ pc' = "error"
               /\ error' = "IndexError"
               /\ UNCHANGED <<events, origin, idIdx>>
          ELSE /\ events' = events \o
                     [i \in 1..Len(PageEntries(page)) |-> PageEntries(page)[i].entry]
               /\ origin' = origin \o
                     [i \in 1..Len(PageEntries(page)) |->
                         [term |-> termIdx, pos |-> idIdx + 1, cal |-> ids[idIdx + 1],
                          day |-> PageEntries(page)[i].day,
                          node |-> PageEntries(page)[i].node]]
               /\ idIdx' = idIdx + 1
               /\ UNCHANGED <<pc, error>>
    /\ UNCHANGED <<cals, terms, year, yearIsList, hashOrder, termIdx, ids,
                   stdout, site, arg, ret>>

\* line 130 and line 202: get_events returns and is called for the next term
NextTerm ==
    /\ pc = "get_events"
    /\ idIdx = Len(ids)
    /\ termIdx < Len(terms)
    /\ CallGetEvents(termIdx + 1)
    /\ UNCHANGED <<cals, terms, year, yearIsList, hashOrder, fetches, events,
                   origin, stdout, error, site, arg, ret>>

\* the raw events the pages can hold, and the years of a run
PoolEntries == UNION {{PageEntries(p)[i].entry : i \in 1..Len(PageEntries(p))} :
                       p \in {q \in Pages \cup BadPages : ~HasEmptyNode(q)}}

\* as_ical_event over the events of the pages, evaluated once
Normalized ==
    [y \in YearPool \cup {CurrentYear} |-> [e \in PoolEntries |-> as_ical_event(y, e)]]

\* normalization that leaves out the events that fail
NormalizeAllSkipBad(evs) ==
    [ok |-> TRUE,
     out |-> SelectSeq([i \in 1..Len(evs) |-> Normalized[year][evs[i]]],
                       LAMBDA r : r.ok)]

\* [as_ical_event(args.year, i) for i in events]: a list for args.year
\* makes replace(year=...) raise TypeError once strptime has succeeded
NormalizeAll(evs) ==
    LET bad == IF yearIsList THEN 1..Len(evs)
               ELSE {i \in 1..Len(evs) : ~Normalized[year][evs[i]].ok}
        first == CHOOSE i \in bad : \A j \in bad : i <= j
    IN  IF bad = {}
        THEN [ok |-> TRUE, out |-> [i \in 1..Len(evs) |-> Normalized[year][evs[i]]]]
        ELSE [ok |-> FALSE,
              error |-> IF yearIsList /\ StrptimeBd(evs[first].day) # {}
                        THEN "TypeError" ELSE "ValueError"]

\* lines 203-205: normalize every event, assemble the feed, write it
WriteFeed ==
    /\ pc = "get_events"
    /\ idIdx = Len(ids)
    /\ termIdx = Len(terms)
    /\ LET normalized == NormalizeAll(events)
           cal == make_cal(normalized.out)
       IN  IF ~normalized.ok
           THEN /\ pc' = "error"
                /\ error' = normalized.error
                /\ UNCHANGED stdout
           ELSE IF ~cal.ok
           THEN /\ pc' = "error"
                /\ error' = cal.error
                /\ UNCHANGED stdout
           ELSE /\ pc' = "done"
                /\ stdout' = <<[kind |-> "ical", cal |-> cal]>>
                /\ UNCHANGED error
    /\ UNCHANGED <<cals, terms, year, yearIsList, hashOrder, termIdx, ids, idIdx,
                   fetches, events, origin, site, arg, ret>>

Next ==
    \/ PrintRegistry
    \/ StartRun
    \/ LookupFails
    \/ FetchCalendar
    \/ NextTerm
    \/ WriteFeed

Spec == Init /\ [][Next]_vars

\* the same runs against a server one of whose pages holds an event that
\* does not parse
InitErr == \E bad \in BadPages : InitRun({PageGood, bad})

SpecErr == InitErr /\ [][Next]_vars

-----------------------------------------------------------------------------
(* Function-level runs: one call, its arguments drawn from bounded sets *)

NoRun ==
    /\ cals = <<>>
    /\ terms = <<>>
    /\ year = CurrentYear
    /\ yearIsList = FALSE
    /\ hashOrder = <<>>
    /\ termIdx = 0
    /\ ids = <<>>
    /\ idIdx = 0
    /\ fetches = <<>>
    /\ events = <<>>
    /\ origin = <<>>
    /\ stdout = <<>>
    /\ error = "none"
    /\ site = {}

runVars == <<cals, terms, year, yearIsList, hashOrder, termIdx, ids, idIdx,
             fetches, events, origin, stdout, error, site>>

\* A clock reading: hour 1..12, minute 0..59, "am" or "pm"; shown tells
\* whether the text carries the minutes ("9:00am") or not ("9am")
ReadingPool ==
    [h : {1, 9, 12}, m : {0, 5, 30}, p : {"a", "p"}, shown : {TRUE}]
    \cup [h : {1, 9, 12}, m : {0}, p : {"a", "p"}, shown : {FALSE}]

\* the reading as the site prints it: "9am", "9:05pm"
ReadingText(r) ==
    IntToStr(r.h)
        \o (IF ~r.shown THEN <<>>
            ELSE <<":">> \o (IF r.m < 10 THEN <<"0">> ELSE <<>>) \o IntToStr(r.m))
        \o <<r.p, "m">>

\* the time of day a reading names, in minutes since midnight
ReadingMinutes(r) ==
    ((r.h % 12) + (IF r.p = "p" THEN 12 ELSE 0)) * 60 + r.m

\* day labels with the month and day they name
DayPool ==
    {[text |-> D_Mar03, month |-> 3, day |-> 3],
     [text |-> D_Feb29, month |-> 2, day |-> 29],
     [text |-> <<"F","e","b"," ","2","8">>, month |-> 2, day |-> 28],
     [text |-> <<"D","e","c"," ","3","1">>, month |-> 12, day |-> 31]}

NormYears == {2023, 2024}

\* as_ical_event(year, event), with what the event is meant to say
NormArgs ==
    {[year |-> y, event |-> [day |-> d.text, event |-> <<"A">>],
      kind |-> "allday", on |-> d] : y \in NormYears, d \in DayPool}
    \cup
    {[year |-> y,
      event |-> [day |-> d.text, event |-> <<"A">>,
                 time |-> ReadingText(a) \o Sep \o ReadingText(b)],
      kind |-> "timed", on |-> d, a |-> a, b |-> b] :
        y \in NormYears, d \in DayPool, a \in ReadingPool, b \in ReadingPool}
    \cup
    {[year |-> y, event |-> [day |-> d.text, event |-> <<"A">>, time |-> t],
      kind |-> "badtime", on |-> d] :
        y \in NormYears, d \in DayPool, t \in {T_9am, T_9xm_10am, T_ThreeParts}}

InitNorm ==
    /\ pc = "call"
    /\ arg \in NormArgs
    /\ ret = <<>>
    /\ NoRun

CallAsIcalEvent ==
    /\ pc = "call"
    /\ "event" \in DOMAIN arg
    /\ ret' = as_ical_event(arg.year, arg.event)
    /\ pc' = "returned"
    /\ UNCHANGED <<arg, runVars>>

SpecNorm == InitNorm /\ [][CallAsIcalEvent]_vars

\* two calls of as_ical_event
UidDays == {<<"M","a","r"," ","1">>, <<"M","a","r"," ","1","2">>, D_Mar03}

UidTimes ==
    {<<"1","a","m"," ","-"," ","2","a","m">>,
     <<"1","1","a","m"," ","-"," ","2","a","m">>}

UidYears == {2021, 2202}

UidArgs ==
    {[year |-> y, event |-> [day |-> d, event |-> n]] :
        y \in UidYears, d \in UidDays, n \in {<<"A">>, <<"B">>}}
    \cup
    {[year |-> y, event |-> [day |-> d, event |-> n, time |-> t]] :
        y \in UidYears, d \in UidDays, n \in {<<"A">>, <<"B">>}, t \in UidTimes}

InitUid ==
    /\ pc = "call"
    /\ arg \in UidArgs \X UidArgs
    /\ ret = <<>>
    /\ NoRun

CallAsIcalEventTwice ==
    /\ pc = "call"
    /\ Len(arg) = 2
    /\ ret' = <<as_ical_event(arg[1].year, arg[1].event),
                as_ical_event(arg[2].year, arg[2].event)>>
    /\ pc' = "returned"
    /\ UNCHANGED <<arg, runVars>>

SpecUid == InitUid /\ [][CallAsIcalEventTwice]_vars

\* generate_vtimezone for a zone of the database and a current year
ZoneArgs ==
    {[tzid |-> "Zone", now |-> now, early |-> early, stdOff |-> off,
      zone |-> ZoneTable(span[1], span[2], off, "STD", "DST", early, at[1], at[2])] :
        now \in 2023..2026,
        early \in {"dst", "std"},
        off \in {-5, 1, 10},
        span \in {<<2022, 2027>>, <<2024, 2025>>, <<2025, 2027>>},
        at \in {<<2000, 7000>>, <<2320, 6688>>}}

InitTz ==
    /\ pc = "call"
    /\ arg \in ZoneArgs
    /\ ret = <<>>
    /\ NoRun

CallGenerateVtimezone ==
    /\ pc = "call"
    /\ "zone" \in DOMAIN arg
    /\ ret' = generate_vtimezone(arg.tzid, arg.zone, arg.now)
    /\ pc' = "returned"
    /\ UNCHANGED <<arg, runVars>>

SpecTz == InitTz /\ [][CallGenerateVtimezone]_vars

-----------------------------------------------------------------------------
(* Properties of as_ical_event *)

\* C1: the uid is decided by exactly (title, day label, year, time text):
\* two events that normalize get the same uid exactly when they agree on all
\* four (md5 taken as collision-free).
C1_UidDecidedByFourFields ==
    (pc = "returned" /\ ret[1].ok /\ ret[2].ok)
        => ((arg[1] = arg[2]) <=> (ret[1].uid = ret[2].uid))

\* the day of the label exists in the target year
DayExists(a) == a.on.day <= DaysInMonth(a.year, a.on.month)

\* C5: a timed event "<a> - <b>" of two valid 12-hour readings yields the
\* start at the resolved date and time of day a, the duration b - a, and no
\* end instant.
C5_TimedStartAndDuration ==
    (pc = "returned" /\ arg.kind = "timed" /\ DayExists(arg))
        => /\ ret.ok
           /\ ret.dtstart.year = arg.year
           /\ ret.dtstart.month = arg.on.month
           /\ ret.dtstart.day = arg.on.day
           /\ ret.dtstart.hour * 60 + ret.dtstart.minute = ReadingMinutes(arg.a)
           /\ ret.duration = ReadingMinutes(arg.b) - ReadingMinutes(arg.a)
           /\ "dtend" \notin DOMAIN ret

\* C6: an all-day event whose month and day exist in the target year
\* normalizes, with start = end = that date and no time of day.
C6_AllDayStartEqualsEnd ==
    (pc = "returned" /\ arg.kind = "allday" /\ DayExists(arg))
        => /\ ret.ok
           /\ "dtend" \in DOMAIN ret
           /\ ret.dtstart = ret.dtend
           /\ ret.dtstart.year = arg.year
           /\ ret.dtstart.month = arg.on.month
           /\ ret.dtstart.day = arg.on.day
           /\ ret.dtstart.hour = 0
           /\ ret.dtstart.minute = 0

-----------------------------------------------------------------------------
(* Properties of generate_vtimezone *)

\* the local times of the transitions of the current and the next year that
\* enter daylight time (dst = 1) or leave it (dst = 0)
Transitions(a, dst) ==
    LET sel == SelectSeq(a.zone, LAMBDA x : YearOf(x.at) \in {a.now, a.now + 1}
                                            /\ x.info.dst = dst)
    IN  [i \in 1..Len(sel) |-> sel[i].at + a.stdOff + (1 - dst)]

\* C10: the daylight component goes from the standard offset to the daylight
\* offset, carries the daylight name and the transitions into daylight time;
\* the standard component is the reverse.
C10_DaylightAndStandardComponents ==
    (pc = "returned" /\ ret.ok)
        => LET daylight == ret.components[1]
               standard == ret.components[2]
           IN  /\ daylight.name = "DAYLIGHT"
               /\ daylight.tzoffsetfrom = arg.stdOff
               /\ daylight.tzoffsetto = arg.stdOff + 1
               /\ daylight.tzname = "DST"
               /\ daylight.rdate = Transitions(arg, 1)
               /\ standard.name = "STANDARD"
               /\ standard.tzoffsetfrom = arg.stdOff + 1
               /\ standard.tzoffsetto = arg.stdOff
               /\ standard.tzname = "STD"
               /\ standard.rdate = Transitions(arg, 0)

-----------------------------------------------------------------------------
(* Properties of a run of main *)

\* the name matches no display name of the registry, whatever the case
Unmatched(name) ==
    LET folded == Casefold(name)
    IN  \A k \in DOMAIN CALS : CalsFolded[k] # folded

HasUnmatched == \E i \in 1..Len(cals) : Unmatched(cals[i])

AllMatch == ~HasUnmatched

FeedWritten == stdout # <<>> /\ stdout[1].kind = "ical"

FeedComponents == stdout[1].cal.components

\* C2 as stated: once a run with an unmatched name has reached the null id,
\* a fetch for the null id has been issued.
C2_NullIdIsFetched ==
    (HasUnmatched /\ pc \in {"done", "error"} /\ error # "IndexError")
        => \E i \in 1..Len(fetches) : fetches[i][1] = None

\* C2 amended: an unmatched name puts None into the id set without an error;
\* no fetch is ever issued for None: the run fails with KeyError at the
\* lookup CALS[calid] when it reaches None, in the first term, having written
\* nothing.
C2_NullIdFailsBeforeFetch ==
    /\ \A i \in 1..Len(fetches) : fetches[i][1] # None
    /\ error = "KeyError" =>
          /\ pc = "error"
          /\ termIdx = 1
          /\ idIdx < Len(ids)
          /\ ids[idIdx + 1] = None
    /\ HasUnmatched =>
          /\ pc # "start" => \E i \in 1..Len(ids) : ids[i] = None
          /\ pc # "done"
          /\ stdout = <<>>

\* a run that failed at the null id after fetching another category
C2_Witness ==
    /\ error = "KeyError"
    /\ Len(fetches) >= 1
    /\ Len(cals) = 2

\* C3: with an empty category list the registry names are printed and the
\* run ends; no fetch is issued and no feed is written, whatever the year
\* and the terms.
C3_EmptyCalsPrintsRegistry ==
    cals = <<>> =>
        /\ fetches = <<>>
        /\ pc \in {"start", "done"}
        /\ pc = "start" => stdout = <<>>
        /\ pc = "done" =>
              /\ Len(stdout) = 1
              /\ stdout[1].kind = "text"
              /\ Len(stdout[1].lines) = Cardinality(DOMAIN CALS)
              /\ {stdout[1].lines[i] : i \in 1..Len(stdout[1].lines)}
                    = {CALS[k] : k \in DOMAIN CALS}

C3_Witness ==
    /\ cals = <<>>
    /\ pc = "done"
    /\ yearIsList
    /\ terms = <<2, 1>>

\* C4: the feed holds exactly one time zone, before every event, followed by
\* exactly the normalized events in the order given.
C4_TimezoneThenEventsInOrder ==
    (pc = "done" /\ FeedWritten) =>
        /\ Len(FeedComponents) = Len(events) + 1
        /\ FeedComponents[1].name = "VTIMEZONE"
        /\ \A i \in 2..Len(FeedComponents) : FeedComponents[i].name = "VEVENT"
        /\ \A i \in 1..Len(events) :
              FeedComponents[i + 1].body = Normalized[year][events[i]]

C4_Witness ==
    /\ pc = "done"
    /\ FeedWritten
    /\ Len(events) >= 3
    /\ events[1] # events[2]

DistinctTerms == \A a, b \in 1..Len(terms) : a # b => terms[a] # terms[b]

\* the fetches of a complete run: for each term in turn, each id of the set
ExpectedFetches ==
    LET order == SetOrder(hashOrder, cal_names_to_ids(cals))
        n == Len(order)
    IN  [k \in 1..(Len(terms) * n) |->
            <<order[((k - 1) % n) + 1], terms[((k - 1) \div n) + 1]>>]

\* C7: when every name matches, names that differ only in case give one id,
\* and the fetches are exactly one per (id, term) of the run, term by term:
\* Len(terms) times the number of ids, none repeated when the terms differ.
C7_OneFetchPerIdAndTerm ==
    AllMatch =>
        LET idset == cal_names_to_ids(cals)
            expected == ExpectedFetches
        IN  /\ Cardinality(idset)
                  = Cardinality({Casefold(cals[i]) : i \in 1..Len(cals)})
            /\ None \notin idset
            /\ error # "KeyError"
            /\ Len(fetches) <= Len(expected)
            /\ fetches = SubSeq(expected, 1, Len(fetches))
            /\ (pc = "done" \/ (pc = "error" /\ error # "IndexError"))
                  => fetches = expected
            /\ DistinctTerms
                  => \A j, k \in 1..Len(fetches) : j # k => fetches[j] # fetches[k]

C7_Witness ==
    /\ pc = "done"
    /\ cals = <<N_Yr10, N_yr10>>
    /\ terms = <<1, 2>>
    /\ fetches = <<<<63, 1>>, <<63, 2>>>>

\* C8 as stated: in the feed all events of one category are contiguous.
C8_CategoryEventsContiguous ==
    (pc = "done" /\ FeedWritten /\ DistinctTerms) =>
        \A i, j, k \in 1..Len(origin) :
            (i < j /\ j < k /\ origin[i].cal = origin[k].cal)
                => origin[j].cal = origin[i].cal

\* a comes before b in the order (term, category, day cell, event node)
Precedes(a, b) ==
    \/ a.term < b.term
    \/ a.term = b.term /\ a.pos < b.pos
    \/ a.term = b.term /\ a.pos = b.pos /\ a.day < b.day
    \/ a.term = b.term /\ a.pos = b.pos /\ a.day = b.day /\ a.node < b.node

\* C8 amended: the events are ordered per term of the run, then per category
\* within the term (in the iteration order of the id set), then per day cell
\* in document order, then per event node; the feed keeps that order.
C8_TermCategoryDayNodeOrder ==
    /\ Len(origin) = Len(events)
    /\ \A i \in 1..(Len(origin) - 1) : Precedes(origin[i], origin[i + 1])
    /\ \A i \in 1..Len(origin) : origin[i].cal = ids[origin[i].pos]
    /\ (pc = "done" /\ FeedWritten) =>
          \A i \in 1..Len(events) :
              FeedComponents[i + 1].body.summary = events[i].event

\* a feed where a category's events of two terms lie around another
\* category's, and a March day precedes a February day
C8_Witness ==
    /\ pc = "done"
    /\ FeedWritten
    /\ Len(events) = 12
    /\ origin[1].cal = origin[7].cal
    /\ origin[4].cal # origin[1].cal
    /\ events[1].day = D_Mar03
    /\ events[3].day = D_Feb07

\* the day label or the time text of the event does not parse
FailsToParse ==
    [e \in PoolEntries |->
        \/ StrptimeBd(e.day) = {}
        \/ HasTime(e) /\ (~parse_duration(e.time).ok
                            \/ Len(parse_duration(e.time).out) # 2)]

\* C9: once an extracted event fails to parse, the run never completes and
\* nothing is ever written to standard output: when the fetches are over,
\* the normalization of line 205 raises.
C9_ParseFailureWritesNothing ==
    (\E i \in 1..Len(events) : FailsToParse[events[i]])
        => /\ stdout = <<>>
           /\ pc \in {"get_events", "error"}
           /\ (pc = "get_events" /\ idIdx = Len(ids) /\ termIdx = Len(terms))
                 => ~NormalizeAll(events).ok

\* a run aborted by an event that is neither the first nor the last
C9_Witness ==
    /\ pc = "error"
    /\ error = "ValueError"
    /\ ~yearIsList
    /\ Len(events) >= 5
    /\ FailsToParse[events[5]]
    /\ Len(events) > 5

====
